---- MODULE Spec2Model ----
(***************************************************************************)
(* Model of the all-weather portfolio backtester (src/backtest.py,          *)
(* src/utils.py): the price-frame builder, the fixed-calendar simulator,    *)
(* the trend-tier ("tvalue") simulator and max_drawdown.                    *)
(*                                                                         *)
(* Floats are modelled as exact rationals <<n, d>> in lowest terms with     *)
(* d > 0; NaN is <<0, 0>>, +inf is <<1, 0>> and -inf is <<-1, 0>>.          *)
(* Timestamps are day numbers, day 0 being Monday 2024-01-01.               *)
(***************************************************************************)
EXTENDS Integers, Sequences, FiniteSets, TLC

VARIABLES
    mode,              \* which entry point this run exercises
    pc,                \* position of the run: "run", "done", "error"
    strategy,          \* backtest(strategy=...)
    freq,              \* backtest(freq=...): [isNone, chars]
    weights,           \* the weight dict: code -> rational
    codes,             \* list(prices.columns)
    params,            \* sma_short, sma_mid, sma_long, confirm_days, cooldown_days
    cal,               \* the calendar the frame's dates follow: [start, daily]
    dates,             \* prices.index consumed so far
    hist,              \* the price rows consumed so far (prices.iloc[0..pos])
    holding_value,     \* code -> rational
    factors,           \* equity-like code -> rational factor
    last_change,       \* equity-like code -> <<>> (None) or <<date>>
    asset_step,        \* asset_reason, asset_prev_tier, asset_new_tier of the latest date
    events_rows,       \* the event log
    portfolio_values,  \* NAV recorded per date
    per_asset_values,  \* holdings snapshot recorded per date
    daily_ret,         \* pf.pct_change().fillna(0.0), set on return
    reset,             \* <<>> or <<r>>: the reset made by the latest loop iteration
    series,            \* max_drawdown's input
    dd,                \* max_drawdown's result
    price_map,         \* _prepare_price_frame's input
    prices_out,        \* _prepare_price_frame's result
    start_date,        \* backtest(start_date=...): <<>> (None) or <<date>>
    end_date           \* backtest(end_date=...): <<>> (None) or <<date>>

vars == <<mode, pc, strategy, freq, weights, codes, params, cal, dates, hist,
          holding_value, factors, last_change, asset_step, events_rows,
          portfolio_values, per_asset_values, daily_ret, reset, series, dd, price_map,
          prices_out, start_date, end_date>>

-----------------------------------------------------------------------------
(* Bounds of the model.                                                     *)

\* longest frame fed to the fixed simulator
MaxDaysFixed == 3
\* longest frame fed to the tvalue simulator
MaxDaysTvalue == 11
\* longest frame fed to the tvalue simulator when two equity-like columns vary
MaxDaysTwoEquity == 4
\* dates of a tvalue frame of two equity-like columns alone
MaxDaysEquityPair == 7
\* highest price of an equity-like column in a tvalue run
MaxPrice == 3
\* longest NAV series fed to max_drawdown
MaxSeriesLen == 4
\* largest NAV value fed to max_drawdown
MaxNav == 3
\* most rows of one source table fed to _prepare_price_frame
MaxTableRows == 2

-----------------------------------------------------------------------------
(* Exact rational arithmetic standing for float arithmetic.                  *)

RECURSIVE GCD(_, _)
GCD(a, b) == IF b = 0 THEN a ELSE GCD(b, a % b)

Abs(x) == IF x < 0 THEN -x ELSE x

NaN == <<0, 0>>
PosInf == <<1, 0>>
NegInf == <<-1, 0>>
Zero == <<0, 1>>
One == <<1, 1>>

IsNaN(x) == x = NaN
IsFinite(x) == x[2] # 0

\* n/d in lowest terms, d # 0
Q(n, d) ==
    LET g == GCD(Abs(n), Abs(d))
        s == IF d < 0 THEN -1 ELSE 1
    IN <<(s * n) \div g, (s * d) \div g>>

Sign(n) == IF n > 0 THEN 1 ELSE IF n < 0 THEN -1 ELSE 0

\* IEEE: NaN propagates, inf - inf is NaN
RAdd(x, y) ==
    IF IsNaN(x) \/ IsNaN(y) THEN NaN
    ELSE IF ~IsFinite(x) /\ ~IsFinite(y) THEN (IF x = y THEN x ELSE NaN)
    ELSE IF ~IsFinite(x) THEN x
    ELSE IF ~IsFinite(y) THEN y
    ELSE LET g == GCD(x[2], y[2])
         IN Q(x[1] * (y[2] \div g) + y[1] * (x[2] \div g), (x[2] \div g) * y[2])

RNeg(x) == <<-x[1], x[2]>>

RSub(x, y) == RAdd(x, RNeg(y))

\* IEEE: 0 * inf is NaN
RMul(x, y) ==
    IF IsNaN(x) \/ IsNaN(y) THEN NaN
    ELSE IF ~IsFinite(x) \/ ~IsFinite(y)
         THEN (IF x[1] = 0 \/ y[1] = 0 THEN NaN ELSE <<Sign(x[1]) * Sign(y[1]), 0>>)
    ELSE LET g1 == GCD(Abs(x[1]), y[2])
             g2 == GCD(Abs(y[1]), x[2])
         IN Q((x[1] \div g1) * (y[1] \div g2), (x[2] \div g2) * (y[2] \div g1))

\* numpy/pandas float division: x/0 is +-inf, 0/0 is NaN
RDiv(x, y) ==
    IF IsNaN(x) \/ IsNaN(y) THEN NaN
    ELSE IF ~IsFinite(y) THEN (IF IsFinite(x) THEN Zero ELSE NaN)
    ELSE IF ~IsFinite(x) THEN (IF y[1] < 0 THEN RNeg(x) ELSE x)
    ELSE IF y[1] = 0 THEN <<Sign(x[1]), 0>>
    ELSE RMul(x, IF y[1] < 0 THEN <<-y[2], -y[1]>> ELSE <<y[2], y[1]>>)

\* comparisons; any comparison with NaN is False
RLt(x, y) ==
    /\ ~IsNaN(x) /\ ~IsNaN(y)
    /\ IF IsFinite(x) /\ IsFinite(y)
       THEN LET g == GCD(x[2], y[2])
            IN x[1] * (y[2] \div g) < y[1] * (x[2] \div g)
       ELSE IF ~IsFinite(x) /\ ~IsFinite(y) THEN x[1] < y[1]
       ELSE IF ~IsFinite(x) THEN x[1] < 0
       ELSE y[1] > 0

RGt(x, y) == RLt(y, x)
RLe(x, y) == ~IsNaN(x) /\ ~IsNaN(y) /\ ~RLt(y, x)
RGe(x, y) == RLe(y, x)
RMax(x, y) == IF RGt(y, x) THEN y ELSE x
RMin(x, y) == IF RLt(y, x) THEN y ELSE x

\* sum(d.values()) over the keys in S
RECURSIVE SumOver(_, _)
SumOver(f, S) ==
    IF S = {} THEN Zero
    ELSE LET c == CHOOSE x \in S : TRUE
         IN RAdd(f[c], SumOver(f, S \ {c}))

Range(s) == {s[i] : i \in DOMAIN s}

-----------------------------------------------------------------------------
(* Calendar: day 0 is Monday 2024-01-01; valid for 2024-01-01..2025-01-31.  *)

\* 0 = Monday .. 6 = Sunday
Weekday(d) == d % 7

\* the last calendar day of each month, Jan 2024 .. Jan 2025
MonthEndDays == {30, 59, 90, 120, 151, 181, 212, 243, 273, 304, 334, 365, 396}
QuarterEndDays == {90, 181, 273, 365, 455}
YearEndDays == {365, 730}

\* the next date of a frame that follows calendar k (every day, or weekdays only)
NextDay(k, d) ==
    IF k.daily THEN d + 1
    ELSE IF Weekday(d) = 4 THEN d + 3
    ELSE IF Weekday(d) = 5 THEN d + 2
    ELSE d + 1

\* the label pandas' resample(f) gives the bin that holds date d:
\* M, Q, A/Y and W bins are closed and labelled on their right edge
\* (month end, quarter end, year end, Sunday); D bins are the days themselves
ResampleLabel(f, d) ==
    CASE f = <<"M">> -> CHOOSE e \in MonthEndDays :
                            e >= d /\ \A e2 \in MonthEndDays : e2 >= d => e <= e2
      [] f = <<"Q">> -> CHOOSE e \in QuarterEndDays :
                            e >= d /\ \A e2 \in QuarterEndDays : e2 >= d => e <= e2
      [] f \in {<<"A">>, <<"Y">>} -> CHOOSE e \in YearEndDays :
                            e >= d /\ \A e2 \in YearEndDays : e2 >= d => e <= e2
      [] f = <<"W">> -> d + (6 - Weekday(d))
      [] OTHER -> d

\* dt in prices.resample(norm_freq).first().index
InRebalDates(f, dt) == ResampleLabel(f, dt) = dt

-----------------------------------------------------------------------------
(* _normalize_freq: a frequency code is None or a string, here a sequence   *)
(* of one-character strings.                                                *)

Lower == <<"m", "q", "a", "y", "w", "d", "n", "o", "e", "x">>
UpperOf == <<"M", "Q", "A", "Y", "W", "D", "N", "O", "E", "X">>

\* str.upper() on one character
UpperChar(ch) ==
    IF \E i \in DOMAIN Lower : Lower[i] = ch
    THEN UpperOf[CHOOSE i \in DOMAIN Lower : Lower[i] = ch]
    ELSE ch

Upper(s) == [i \in DOMAIN s |-> UpperChar(s[i])]

\* str.strip(): drops leading and trailing whitespace
RECURSIVE Strip(_)
Strip(s) ==
    IF s = <<>> THEN s
    ELSE IF Head(s) = " " THEN Strip(Tail(s))
    ELSE IF s[Len(s)] = " " THEN Strip(SubSeq(s, 1, Len(s) - 1))
    ELSE s

RecognizedFreqs == {<<"M">>, <<"Q">>, <<"A">>, <<"Y">>, <<"W">>, <<"D">>}

NormalizeFreqNoFold(fr) ==
    IF fr.isNone THEN <<>>
    ELSE LET f == Strip(fr.chars)
         IN IF f \in RecognizedFreqs THEN f ELSE <<>>

\* _normalize_freq; None is <<>>
NormalizeFreq(fr) ==
    IF fr.isNone THEN <<>>
    ELSE LET f == Upper(Strip(fr.chars))
         IN IF f \in RecognizedFreqs THEN f ELSE <<>>

-----------------------------------------------------------------------------
(* The inputs the runs are drawn from.                                      *)

Equity1 == "510300.SH"
Equity2 == "518880.SH"
CashCode == "511880.SH"
BondCode == "511010.SH"

R(n) == <<n, 1>>

FreqCodes ==
    { [isNone |-> TRUE, chars |-> <<>>],
      [isNone |-> FALSE, chars |-> <<"N", "O", "N", "E">>],
      [isNone |-> FALSE, chars |-> <<"x">>],
      [isNone |-> FALSE, chars |-> <<" ", "m", " ">>],
      [isNone |-> FALSE, chars |-> <<"q">>],
      [isNone |-> FALSE, chars |-> <<"y">>],
      [isNone |-> FALSE, chars |-> <<"W">>],
      [isNone |-> FALSE, chars |-> <<"d">>] }

\* Mon 2024-01-29 (weekdays): the month ends on the third date;
\* Fri 2024-03-29 (every day): Sunday 03-31 ends the week, the month and the
\* quarter; Mon 2024-12-30 (weekdays): the year ends on the second date
Calendars ==
    { [start |-> 28, daily |-> FALSE],
      [start |-> 88, daily |-> TRUE],
      [start |-> 364, daily |-> FALSE] }

FixedColumns == { <<Equity1, BondCode>> }

TvalueColumns ==
    { <<Equity1>>,
      <<Equity1, CashCode, BondCode>>,
      <<Equity1, Equity2, BondCode>> }

\* weight dicts; a code without a key gets weights.get(c, 0.0) = 0
WeightChoices(cols) ==
    CASE cols = <<Equity1, BondCode>> ->
            { (Equity1 :> Q(3, 5)) @@ (BondCode :> Q(2, 5)),
              (Equity1 :> Q(3, 5)) @@ (BondCode :> Q(3, 5)),
              (Equity1 :> Q(1, 2)) @@ (CashCode :> Q(1, 2)) }
      [] cols = <<Equity1>> ->
            { (Equity1 :> One) }
      [] cols = <<Equity1, CashCode, BondCode>> ->
            { (Equity1 :> Q(1, 2)) @@ (CashCode :> Q(1, 4)) @@ (BondCode :> Q(1, 4)),
              (Equity1 :> Q(3, 4)) @@ (CashCode :> Q(1, 4)) }
      [] cols = <<Equity1, Equity2, BondCode>> ->
            { (Equity1 :> Q(1, 4)) @@ (Equity2 :> Q(1, 4)) @@ (BondCode :> Q(1, 2)) }
      [] cols = <<Equity1, Equity2>> ->
            { (Equity1 :> Q(1, 2)) @@ (Equity2 :> Q(1, 2)) }

DefaultParams ==
    [sma_short |-> 50, sma_mid |-> 100, sma_long |-> 200,
     confirm_days |-> 5, cooldown_days |-> 10]

\* the parameters and the calendar of a tvalue run: short windows with a
\* 3-day cooldown on a frame of consecutive days from Sat 2024-01-27, and a
\* 10-day cooldown on a frame of weekdays from Mon 2024-01-29
TvalueSetups ==
    { [params |-> [sma_short |-> 2, sma_mid |-> 3, sma_long |-> 4,
                   confirm_days |-> 2, cooldown_days |-> 3],
       cal |-> [start |-> 26, daily |-> TRUE]],
      [params |-> [sma_short |-> 2, sma_mid |-> 3, sma_long |-> 5,
                   confirm_days |-> 3, cooldown_days |-> 10],
       cal |-> [start |-> 28, daily |-> FALSE]] }

\* the prices a column may carry on the date after frame h.  A fixed run
\* draws every price afresh (the bond column may start late and may quote 0).
\* In a tvalue run an equity-like column starts anywhere in 1..MaxPrice and then
\* moves one tick up or down a day, after a lead-in of any length during
\* which it stays flat; the cash and bond columns stay at 1.
PriceVals(strat, c, h) ==
    IF strat = "fixed"
    THEN (IF c = BondCode THEN {NaN, Zero, R(1), R(2)} ELSE {R(1), R(2)})
    ELSE IF c \notin {Equity1, Equity2} THEN {R(1)}
    ELSE IF h = <<>> THEN {R(n) : n \in 1..MaxPrice}
    ELSE LET prev == h[Len(h)][c][1]
         IN {R(n) : n \in {prev - 1, prev + 1} \cap (1..MaxPrice)}
            \cup (IF \A k \in DOMAIN h : h[k][c] = R(prev) THEN {R(prev)} ELSE {})

\* a frame from _prepare_price_frame is forward-filled and keeps no all-NaN
\* row: a column is NaN only before its first observation
RowOk(h, row) ==
    /\ \E c \in DOMAIN row : ~IsNaN(row[c])
    /\ \A c \in DOMAIN row :
          IsNaN(row[c]) => (h = <<>> \/ IsNaN(h[Len(h)][c]))

NextRows(strat, cols, h) ==
    { row \in [Range(cols) -> UNION {PriceVals(strat, c, h) : c \in Range(cols)}] :
         /\ \A c \in Range(cols) : row[c] \in PriceVals(strat, c, h)
         /\ RowOk(h, row) }

Horizon(strat, cols) ==
    IF strat = "fixed" THEN MaxDaysFixed
    ELSE IF cols = <<Equity1, Equity2>> THEN MaxDaysEquityPair
    ELSE IF Equity2 \in Range(cols) THEN MaxDaysTwoEquity
    ELSE MaxDaysTvalue

-----------------------------------------------------------------------------
(* Pieces shared by the two simulators.                                     *)

\* weights.get(c, 0.0)
WeightsGet(w, c) == IF c \in DOMAIN w THEN w[c] ELSE Zero

\* holding_value = {c: start_val * weights.get(c, 0.0) for c in prices.columns}
InitialHolding(cols, w) == [c \in Range(cols) |-> RMul(One, WeightsGet(w, c))]

DayReturnOnCur(prev, cur) ==
    IF prev = Zero \/ IsNaN(prev) THEN Zero
    ELSE RDiv(RSub(cur, prev), cur)

\* the day's return of one column, 0 when the previous price is 0 or NaN
DayReturn(prev, cur) ==
    IF prev = Zero \/ IsNaN(prev) THEN Zero
    ELSE RDiv(RSub(cur, prev), prev)

\* holding_value[c] *= (1.0 + (ret if not np.isnan(ret) else 0.0))
ApplyReturns(h, prevRow, row) ==
    [c \in DOMAIN h |->
        LET ret == DayReturn(prevRow[c], row[c])
        IN RMul(h[c], RAdd(One, IF IsNaN(ret) THEN Zero ELSE ret))]

TotalValueBeforeReturns(h) == SumOver(holding_value, DOMAIN holding_value)

\* total_val = sum(holding_value.values())
TotalValue(h) == SumOver(h, DOMAIN h)

PrevPricesFirst(h, row) == IF h = <<>> THEN row ELSE h[1]

\* prev_prices: prices.iloc[0] before the first iteration, then the last row
PrevPrices(h, row) == IF h = <<>> THEN row ELSE h[Len(h)]

RECURSIVE FrameIndex(_, _, _)
\* prices.index: the n dates of calendar k from date d on
FrameIndex(k, d, n) ==
    IF n = 0 THEN <<>> ELSE <<d>> \o FrameIndex(k, NextDay(k, d), n - 1)

KeptDatesNoEnd(idx, s, e) ==
    LET Kept(d) == s = <<>> \/ d >= s[1]
    IN SelectSeq(idx, Kept)

\* prices.loc[pd.to_datetime(start_date):] and prices.loc[:pd.to_datetime(end_date)],
\* each applied only when the argument is given; both ends are inclusive
KeptDates(idx, s, e) ==
    LET Kept(d) == (s = <<>> \/ d >= s[1]) /\ (e = <<>> \/ d <= e[1])
    IN SelectSeq(idx, Kept)

\* the index of the frame the simulator iterates over
FilteredIndex ==
    KeptDates(FrameIndex(cal, cal.start, Horizon(strategy, codes)), start_date, end_date)

\* dt of the next iteration of prices.iterrows()
NextDate == FilteredIndex[Len(dates) + 1]

\* pf.pct_change().fillna(0.0)
PctChange(pf) ==
    [i \in DOMAIN pf |->
        IF i = 1 THEN Zero
        ELSE LET r == RSub(RDiv(pf[i], pf[i - 1]), One)
             IN IF IsNaN(r) THEN Zero ELSE r]

-----------------------------------------------------------------------------
(* _simulate_rebalanced_portfolio                                           *)

\* one event per column of a fixed rebalance, in column order
FixedEvents(cols, w, f, dt) ==
    [i \in DOMAIN cols |->
        [date |-> dt, event |-> "fixed_rebalance", asset |-> cols[i],
         new_weight |-> WeightsGet(w, cols[i]), factor |-> One, reason |-> f]]

\* holding_value[c] = total_val * weights.get(c, 0.0)
FixedReset(h, w) ==
    LET total_val == TotalValue(h)
    IN [c \in DOMAIN h |-> RMul(total_val, WeightsGet(w, c))]

\* if norm_freq and dt in rebal_dates
FixedRebalanceDue(f, dt) == f # <<>> /\ InRebalDates(f, dt)

\* one iteration of the loop over prices.iterrows()
FixedDay ==
    /\ mode = "simulate" /\ pc = "run" /\ strategy = "fixed"
    /\ Len(hist) < Len(FilteredIndex)
    /\ \E row \in NextRows(strategy, codes, hist) :
         /\ hist' = Append(hist, row)
         /\ dates' = Append(dates, NextDate)
         /\ reset' =
              IF FixedRebalanceDue(NormalizeFreq(freq), dates'[Len(dates')])
              THEN << [date |-> dates'[Len(dates')],
                       total_before |-> TotalValue(holding_value),
                       holding_after |-> FixedReset(holding_value, weights)] >>
              ELSE <<>>
         /\ events_rows' =
              IF reset' # <<>>
              THEN events_rows \o
                   FixedEvents(codes, weights, NormalizeFreq(freq), dates'[Len(dates')])
              ELSE events_rows
         /\ holding_value' =
              ApplyReturns(IF reset' # <<>> THEN reset'[1].holding_after ELSE holding_value,
                           PrevPrices(hist, row), row)
         /\ portfolio_values' =
              Append(portfolio_values, TotalValue(holding_value'))
         /\ per_asset_values' = Append(per_asset_values, holding_value')
    /\ UNCHANGED <<mode, pc, strategy, freq, weights, codes, params, cal, factors,
                   last_change, asset_step, daily_ret, series, dd, price_map, prices_out,
                   start_date, end_date>>

\* the simulators' tail: pf, daily_ret, asset_df, events_df are returned
Finish ==
    /\ mode = "simulate" /\ pc = "run" /\ hist # <<>>
    /\ pc' = "done"
    /\ daily_ret' = PctChange(portfolio_values)
    /\ reset' = <<>>
    /\ UNCHANGED <<mode, strategy, freq, weights, codes, params, cal, dates, hist,
                   holding_value, factors, last_change, asset_step, events_rows,
                   portfolio_values, per_asset_values, series, dd, price_map,
                   prices_out, start_date, end_date>>

InitFixed ==
    /\ mode = "simulate" /\ pc = "run" /\ strategy = "fixed"
    /\ freq \in FreqCodes
    /\ codes \in FixedColumns
    /\ weights \in WeightChoices(codes)
    /\ params = DefaultParams
    /\ cal \in Calendars
    /\ dates = <<>> /\ hist = <<>>
    /\ holding_value = InitialHolding(codes, weights)
    /\ factors = <<>> /\ last_change = <<>> /\ asset_step = <<>>
    /\ events_rows = <<>> /\ portfolio_values = <<>> /\ per_asset_values = <<>>
    /\ daily_ret = <<>> /\ reset = <<>>
    /\ series = <<>> /\ dd = <<>> /\ price_map = <<>> /\ prices_out = <<>>
    /\ start_date = <<>> /\ end_date = <<>>

NextFixed == FixedDay \/ Finish

SpecFixed == InitFixed /\ [][NextFixed]_vars

-----------------------------------------------------------------------------
(* _simulate_tvalue_portfolio                                               *)

Half == <<1, 2>>
Two == <<2, 1>>
\* a field that holds None
NoneVal == <<>>

\* "511880" in c / "511010" in c, over the codes of the model
HasCashTag(c) == c = CashCode
HasBondTag(c) == c = BondCode

\* the last column carrying the tag, <<>> for None
TaggedCode(cols, Tag(_)) ==
    LET idx == {i \in DOMAIN cols : Tag(cols[i])}
    IN IF idx = {} THEN <<>>
       ELSE << cols[CHOOSE i \in idx : \A j \in idx : j <= i] >>

CashOf(cols) == TaggedCode(cols, HasCashTag)
BondOf(cols) == TaggedCode(cols, HasBondTag)

\* equity_like = [c for c in codes if c not in {cash_code, bond_code}]
EquityLike(cols) == Range(cols) \ (Range(CashOf(cols)) \cup Range(BondOf(cols)))

\* factors = {c: 1.0 for c in equity_like}
InitialFactors(cols) == [c \in EquityLike(cols) |-> One]

\* last_change = {c: None for c in equity_like}
InitialLastChange(cols) == [c \in EquityLike(cols) |-> NoneVal]

\* a mean over the rows available so far, as rolling(w, min_periods=1) gives
RollingMeanPartial(h, c, w, pos) ==
    LET lo == IF pos < w THEN 1 ELSE pos - w + 1
    IN IF \E k \in lo..pos : IsNaN(h[k][c]) THEN NaN
       ELSE RDiv(SumOver([k \in lo..pos |-> h[k][c]], lo..pos), R(pos - lo + 1))

\* prices[c].rolling(w).mean() at position pos (1-based): NaN until the window
\* is full and while it holds a NaN
RollingMean(h, c, w, pos) ==
    IF pos < w \/ \E k \in (pos - w + 1)..pos : IsNaN(h[k][c]) THEN NaN
    ELSE RDiv(SumOver([k \in (pos - w + 1)..pos |-> h[k][c]], (pos - w + 1)..pos),
              R(w))

\* the shift of the trailing return
RetShift == 10

Ret10Ratio(h, c, pos) ==
    IF pos <= RetShift THEN NaN
    ELSE RDiv(h[pos][c], h[pos - RetShift][c])

\* prices / prices.shift(10) - 1.0
Ret10(h, c, pos) ==
    IF pos <= RetShift THEN NaN
    ELSE RSub(RDiv(h[pos][c], h[pos - RetShift][c]), One)

TierMapWide(t) ==
    CASE t = 0 -> Zero [] t = 1 -> Half [] t = 2 -> One [] t = 3 -> <<3, 1>>
      [] OTHER -> One

\* tier_map.get(t, 1.0)
TierMap(t) ==
    CASE t = 0 -> Zero [] t = 1 -> Half [] t = 2 -> One [] t = 3 -> Two
      [] OTHER -> One

tier_from_factor(f) ==
    IF RGe(f, Q(3, 2)) THEN 3
    ELSE IF RGe(f, Q(3, 4)) THEN 2
    ELSE IF RGt(f, Zero) THEN 1
    ELSE 0

B2I(b) == IF b THEN 1 ELSE 0

\* int(p > s50) + int(p > s100) + int(p > s200) at position pos
RawTier(h, c, pr, pos) ==
    B2I(RGt(h[pos][c], RollingMean(h, c, pr.sma_short, pos)))
    + B2I(RGt(h[pos][c], RollingMean(h, c, pr.sma_mid, pos)))
    + B2I(RGt(h[pos][c], RollingMean(h, c, pr.sma_long, pos)))

ConfirmedLatestOnly(h, c, pr, pos) == pos >= pr.confirm_days

\* conf: the raw tier of each of the last confirm_days positions is the same
Confirmed(h, c, pr, pos) ==
    /\ pos >= pr.confirm_days
    /\ LET idxs == (pos - (pr.confirm_days - 1))..pos
       IN /\ Cardinality({RawTier(h, c, pr, ix) : ix \in idxs}) = 1
          /\ RawTier(h, c, pr, pos) = RawTier(h, c, pr, pos)

InCooldownOff(lc, dt, pr) == FALSE

\* cooldown = (dt - last_change[c]).days < int(cooldown_days)
InCooldown(lc, dt, pr) == lc # NoneVal /\ dt - lc[1] < pr.cooldown_days

Min2(a, b) == IF a < b THEN a ELSE b
Max2(a, b) == IF a > b THEN a ELSE b

DownCrossTierJump(target_tier, cur_tier) == target_tier

\* new_tier = max(target_tier, cur_tier - 1)
DownCrossTier(target_tier, cur_tier) == Max2(target_tier, cur_tier - 1)

Unchanged(f, lc, cur_tier) ==
    [changed |-> FALSE, factor |-> f, last_change |-> lc, reason |-> "",
     prev_tier |-> cur_tier, new_tier |-> cur_tier]

ChangedSilently(new_tier, new_factor, dt, why, cur_tier) ==
    [changed |-> FALSE, factor |-> new_factor, last_change |-> <<dt>>,
     reason |-> why, prev_tier |-> cur_tier, new_tier |-> new_tier]

\* a tier change of one asset: factors[c], last_change[c], changed = True and
\* the asset_reason, asset_prev_tier, asset_new_tier entries
Changed(new_tier, new_factor, dt, why, cur_tier) ==
    [changed |-> TRUE, factor |-> new_factor, last_change |-> <<dt>>,
     reason |-> why, prev_tier |-> cur_tier, new_tier |-> new_tier]

\* the tier step with the confirm rule tried before the down-cross rule
TierStepConfirmFirst(h, c, pr, pos, dt, f, lc) ==
    LET target_tier == RawTier(h, c, pr, pos)
        conf == Confirmed(h, c, pr, pos)
        cooldown == InCooldown(lc, dt, pr)
        desired_factor == TierMap(target_tier)
        cur_tier == tier_from_factor(f)
    IN IF \/ IsNaN(RollingMean(h, c, pr.sma_short, pos))
          \/ IsNaN(RollingMean(h, c, pr.sma_mid, pos))
          \/ IsNaN(RollingMean(h, c, pr.sma_long, pos))
       THEN Unchanged(f, lc, cur_tier)
       ELSE IF ~cooldown /\ conf /\ desired_factor # f
       THEN Changed(target_tier, desired_factor, dt, "confirm", cur_tier)
       ELSE IF ~cooldown /\ target_tier < cur_tier /\ desired_factor # f
       THEN LET new_tier == DownCrossTier(target_tier, cur_tier)
            IN Changed(new_tier, TierMap(new_tier), dt, "down_cross", cur_tier)
       ELSE Unchanged(f, lc, cur_tier)

\* the body of "for c in equity_like" for one asset: h is the frame up to and
\* including dt (position pos), f and lc the asset's factor and last change
TierStep(h, c, pr, pos, dt, f, lc) ==
    LET s50 == RollingMean(h, c, pr.sma_short, pos)
        s100 == RollingMean(h, c, pr.sma_mid, pos)
        s200 == RollingMean(h, c, pr.sma_long, pos)
        target_tier == RawTier(h, c, pr, pos)
        conf == Confirmed(h, c, pr, pos)
        cooldown == InCooldown(lc, dt, pr)
        desired_factor == TierMap(target_tier)
        cur_factor == f
        cur_tier == tier_from_factor(cur_factor)
        r10 == Ret10(h, c, pos)
    IN IF IsNaN(s50) \/ IsNaN(s100) \/ IsNaN(s200)
       THEN Unchanged(f, lc, cur_tier)
       ELSE IF ~cooldown /\ target_tier < cur_tier /\ desired_factor # cur_factor
       THEN LET new_tier == DownCrossTier(target_tier, cur_tier)
            IN Changed(new_tier, TierMap(new_tier), dt, "down_cross", cur_tier)
       ELSE IF ~cooldown /\ conf /\ desired_factor # cur_factor
       THEN Changed(target_tier, desired_factor, dt, "confirm", cur_tier)
       ELSE IF ~cooldown /\ ~IsNaN(r10)
       THEN (IF RGe(r10, Q(6, 100)) /\ cur_tier < 3
             THEN LET new_tier == Min2(3, cur_tier + 1)
                  IN IF TierMap(new_tier) # cur_factor
                     THEN Changed(new_tier, TierMap(new_tier), dt, "fast_up", cur_tier)
                     ELSE Unchanged(f, lc, cur_tier)
             ELSE IF RLe(r10, Q(-6, 100)) /\ cur_tier > 0
             THEN LET new_tier == Max2(0, cur_tier - 1)
                  IN IF TierMap(new_tier) # cur_factor
                     THEN Changed(new_tier, TierMap(new_tier), dt, "fast_down", cur_tier)
                     ELSE Unchanged(f, lc, cur_tier)
             ELSE Unchanged(f, lc, cur_tier))
       ELSE Unchanged(f, lc, cur_tier)

NormalizeBySumEq(w, sumb, sum_eq) ==
    IF RGt(sumb, Zero) THEN [k \in DOMAIN w |-> RDiv(w[k], sum_eq)] ELSE w

NormalizeByNav(w, sumb, sum_eq) ==
    IF RGt(sumb, Zero)
    THEN [k \in DOMAIN w |-> RDiv(w[k], TotalValue(holding_value))]
    ELSE w

\* if sumb > 0: new_w[k] = new_w[k] / sumb
NormalizeWeights(w, sumb, sum_eq) ==
    IF RGt(sumb, Zero) THEN [k \in DOMAIN w |-> RDiv(w[k], sumb)] ELSE w

CashNewKeepsBase(w_cash, delta, target_cb) == w_cash

\* cash_new of the two branches on delta
CashNew(w_cash, delta, target_cb) ==
    IF RGe(delta, Zero)
    THEN LET reduce_cash == RMin(w_cash, delta)
         IN RMax(Zero, RSub(w_cash, reduce_cash))
    ELSE LET release == RNeg(delta)
         IN RMin(target_cb, RAdd(w_cash, release))

\* the "if changed:" block up to the normalization: fs are the factors after
\* the day's tier steps
Reweigh(cols, w, fs) ==
    LET equity_like == EquityLike(cols)
        cash_code == CashOf(cols)
        bond_code == BondOf(cols)
        eq_new == [c \in equity_like |-> RMul(WeightsGet(w, c), fs[c])]
        sum_eq == SumOver(eq_new, equity_like)
        w_cash == IF cash_code # <<>> THEN WeightsGet(w, cash_code[1]) ELSE Zero
        w_bond == IF bond_code # <<>> THEN WeightsGet(w, bond_code[1]) ELSE Zero
        base_eq_sum == SumOver([c \in equity_like |-> WeightsGet(w, c)], equity_like)
        delta == RSub(sum_eq, base_eq_sum)
        target_cb == RMax(Zero, RSub(One, sum_eq))
        cash_new == CashNew(w_cash, delta, target_cb)
        bond_new == RMax(Zero, RSub(target_cb, cash_new))
        raw_w == [c \in Range(cols) |->
                    IF bond_code # <<>> /\ c = bond_code[1] THEN bond_new
                    ELSE IF cash_code # <<>> /\ c = cash_code[1] THEN cash_new
                    ELSE eq_new[c]]
        sumb == SumOver(raw_w, Range(cols))
    IN [sum_eq |-> sum_eq, w_cash |-> w_cash, w_bond |-> w_bond,
        base_eq_sum |-> base_eq_sum, delta |-> delta, target_cb |-> target_cb,
        cash_new |-> cash_new, bond_new |-> bond_new, raw_w |-> raw_w,
        sumb |-> sumb, new_w |-> NormalizeWeights(raw_w, sumb, sum_eq)]

\* float(x) if not np.isnan(x) else None
OrNone(x) == IF IsNaN(x) THEN NoneVal ELSE x

\* the cooldown flag written to an event
EventCooldown(lc, dt) == lc # NoneVal /\ dt - lc[1] < 10

\* one tvalue_rebalance event per column, in column order
TvalueEvents(cols, h, pr, pos, dt, new_w, fs, lcs, steps) ==
    [i \in DOMAIN cols |->
        LET c == cols[i]
            eq == c \in EquityLike(cols)
            fc == IF eq THEN fs[c] ELSE One
        IN [date |-> dt, event |-> "tvalue_rebalance", asset |-> c,
            new_weight |-> new_w[c],
            factor |-> fc,
            reason |-> IF eq THEN steps[c].reason ELSE "",
            prev_tier |-> IF eq /\ steps[c].changed THEN steps[c].prev_tier
                          ELSE tier_from_factor(fc),
            new_tier |-> IF eq /\ steps[c].changed THEN steps[c].new_tier
                         ELSE tier_from_factor(fc),
            price |-> h[pos][c],
            sma50 |-> IF eq THEN OrNone(RollingMean(h, c, pr.sma_short, pos)) ELSE NoneVal,
            sma100 |-> IF eq THEN OrNone(RollingMean(h, c, pr.sma_mid, pos)) ELSE NoneVal,
            sma200 |-> IF eq THEN OrNone(RollingMean(h, c, pr.sma_long, pos)) ELSE NoneVal,
            ret10 |-> IF eq THEN OrNone(Ret10(h, c, pos)) ELSE NoneVal,
            cooldown |-> IF eq THEN EventCooldown(lcs[c], dt) ELSE FALSE]]

\* one iteration of the loop over prices.iterrows()
TvalueDay ==
    /\ mode = "simulate" /\ pc = "run" /\ strategy = "tvalue"
    /\ Len(hist) < Len(FilteredIndex)
    /\ \E row \in NextRows(strategy, codes, hist) :
         /\ hist' = Append(hist, row)
         /\ dates' = Append(dates, NextDate)
         /\ asset_step' = [c \in EquityLike(codes) |->
                             TierStep(hist', c, params, Len(hist'), dates'[Len(dates')],
                                      factors[c], last_change[c])]
         /\ factors' = [c \in EquityLike(codes) |-> asset_step'[c].factor]
         /\ last_change' = [c \in EquityLike(codes) |-> asset_step'[c].last_change]
         /\ reset' =
              IF \E c \in EquityLike(codes) : asset_step'[c].changed
              THEN LET total_val == TotalValue(holding_value)
                       rw == Reweigh(codes, weights, factors')
                   IN << [date |-> dates'[Len(dates')], total_before |-> total_val,
                          holding_after |->
                              [c \in DOMAIN holding_value |-> RMul(total_val, rw.new_w[c])],
                          rw |-> rw] >>
              ELSE <<>>
         /\ events_rows' =
              IF reset' # <<>>
              THEN events_rows \o
                   TvalueEvents(codes, hist', params, Len(hist'), dates'[Len(dates')],
                                reset'[1].rw.new_w, factors', last_change', asset_step')
              ELSE events_rows
         /\ holding_value' =
              ApplyReturns(IF reset' # <<>> THEN reset'[1].holding_after ELSE holding_value,
                           PrevPrices(hist, row), row)
         /\ portfolio_values' =
              Append(portfolio_values, TotalValue(holding_value'))
         /\ per_asset_values' = Append(per_asset_values, holding_value')
    /\ UNCHANGED <<mode, pc, strategy, freq, weights, codes, params, cal,
                   daily_ret, series, dd, price_map, prices_out, start_date, end_date>>

InitTvalue ==
    /\ mode = "simulate" /\ pc = "run" /\ strategy = "tvalue"
    /\ freq = [isNone |-> FALSE, chars |-> <<"M">>]
    /\ codes \in TvalueColumns
    /\ weights \in WeightChoices(codes)
    /\ \E su \in TvalueSetups : params = su.params /\ cal = su.cal
    /\ dates = <<>> /\ hist = <<>>
    /\ holding_value = InitialHolding(codes, weights)
    /\ factors = InitialFactors(codes)
    /\ last_change = InitialLastChange(codes)
    /\ asset_step = <<>>
    /\ events_rows = <<>> /\ portfolio_values = <<>> /\ per_asset_values = <<>>
    /\ daily_ret = <<>> /\ reset = <<>>
    /\ series = <<>> /\ dd = <<>> /\ price_map = <<>> /\ prices_out = <<>>
    /\ start_date = <<>> /\ end_date = <<>>

NextTvalue == TvalueDay \/ Finish

\* a tvalue run on two equity-like columns with the short windows and the
\* 3-day cooldown, on consecutive days
InitEquityPair ==
    /\ mode = "simulate" /\ pc = "run" /\ strategy = "tvalue"
    /\ freq = [isNone |-> FALSE, chars |-> <<"M">>]
    /\ codes = <<Equity1, Equity2>>
    /\ weights \in WeightChoices(codes)
    /\ \E su \in TvalueSetups :
          su.params.cooldown_days = 3 /\ params = su.params /\ cal = su.cal
    /\ dates = <<>> /\ hist = <<>>
    /\ holding_value = InitialHolding(codes, weights)
    /\ factors = InitialFactors(codes)
    /\ last_change = InitialLastChange(codes)
    /\ asset_step = <<>>
    /\ events_rows = <<>> /\ portfolio_values = <<>> /\ per_asset_values = <<>>
    /\ daily_ret = <<>> /\ reset = <<>>
    /\ series = <<>> /\ dd = <<>> /\ price_map = <<>> /\ prices_out = <<>>
    /\ start_date = <<>> /\ end_date = <<>>

SpecEquityPair == InitEquityPair /\ [][NextTvalue]_vars

SpecTvalue == InitTvalue /\ [][NextTvalue]_vars

\* backtest(): one run of either simulator
Init == InitFixed \/ InitTvalue

Next == FixedDay \/ TvalueDay \/ Finish

Spec == Init /\ [][Next]_vars

\* backtest() up to the simulator's prev_prices = prices.iloc[0]: the frame is
\* cut to [start_date, end_date]; on an empty frame iloc[0] raises IndexError
\* and nothing is returned
Backtest ==
    /\ mode = "simulate" /\ pc = "filter"
    /\ pc' = IF FilteredIndex = <<>> THEN "error" ELSE "run"
    /\ UNCHANGED <<mode, strategy, freq, weights, codes, params, cal, dates, hist,
                   holding_value, factors, last_change, asset_step, events_rows,
                   portfolio_values, per_asset_values, daily_ret, reset, series, dd,
                   price_map, prices_out, start_date, end_date>>

\* 2024-01-31 and a date after every frame
StartDates == {<<>>, <<30>>, <<400>>}
\* 2024-01-28, before every frame, and 2024-01-30
EndDates == {<<>>, <<27>>, <<29>>}

InitBacktest ==
    /\ mode = "simulate" /\ pc = "filter"
    /\ start_date \in StartDates /\ end_date \in EndDates
    /\ \/ /\ strategy = "fixed"
          /\ freq \in FreqCodes
          /\ codes \in FixedColumns
          /\ weights = (Equity1 :> Q(3, 5)) @@ (BondCode :> Q(2, 5))
          /\ params = DefaultParams
          /\ cal \in Calendars
          /\ factors = <<>> /\ last_change = <<>>
       \/ /\ strategy = "tvalue"
          /\ freq = [isNone |-> FALSE, chars |-> <<"M">>]
          /\ codes = <<Equity1>>
          /\ weights = (Equity1 :> One)
          /\ \E su \in TvalueSetups : params = su.params /\ cal = su.cal
          /\ factors = InitialFactors(codes)
          /\ last_change = InitialLastChange(codes)
    /\ dates = <<>> /\ hist = <<>>
    /\ holding_value = InitialHolding(codes, weights)
    /\ asset_step = <<>>
    /\ events_rows = <<>> /\ portfolio_values = <<>> /\ per_asset_values = <<>>
    /\ daily_ret = <<>> /\ reset = <<>>
    /\ series = <<>> /\ dd = <<>> /\ price_map = <<>> /\ prices_out = <<>>

NextBacktest == Backtest \/ FixedDay \/ TvalueDay \/ Finish

SpecBacktest == InitBacktest /\ [][NextBacktest]_vars

-----------------------------------------------------------------------------
(* max_drawdown: the series is indexed by its ascending dates, here 1..Len.  *)

\* the least index at which f, a sequence of rationals, is minimal (idxmin)
IdxMin(f) ==
    CHOOSE i \in DOMAIN f :
        /\ \A j \in DOMAIN f : RLe(f[i], f[j])
        /\ \A j \in 1..(i - 1) : RLt(f[i], f[j])

\* the least index at which f is maximal (idxmax)
IdxMax(f) ==
    CHOOSE i \in DOMAIN f :
        /\ \A j \in DOMAIN f : RGe(f[i], f[j])
        /\ \A j \in 1..(i - 1) : RGt(f[i], f[j])

\* series.cummax()
CumMax(sq) == [i \in DOMAIN sq |-> sq[IdxMax(SubSeq(sq, 1, i))]]

\* series / cummax - 1.0
DrawdownOf(sq) == [i \in DOMAIN sq |-> RSub(RDiv(sq[i], CumMax(sq)[i]), One)]

PeakOverAll(sq, end) == IdxMax(sq)

\* start = series.loc[:end].idxmax()
PeakUpTo(sq, end) == IdxMax(SubSeq(sq, 1, end))

MaxDrawdownOf(sq) ==
    LET drawdown == DrawdownOf(sq)
        end == IdxMin(drawdown)
    IN [mdd |-> drawdown[end], start |-> PeakUpTo(sq, end), end |-> end]

RECURSIVE SeqsUpTo(_, _)
\* the non-empty sequences over S of length at most n
SeqsUpTo(S, n) ==
    IF n = 0 THEN {}
    ELSE LET shorter == SeqsUpTo(S, n - 1)
         IN {<<x>> : x \in S} \cup shorter
            \cup {Append(sq, x) : sq \in {t \in shorter : Len(t) = n - 1}, x \in S}

Idle ==
    /\ strategy = "" /\ freq = [isNone |-> TRUE, chars |-> <<>>]
    /\ weights = <<>> /\ codes = <<>> /\ params = DefaultParams
    /\ cal = [start |-> 0, daily |-> TRUE]
    /\ dates = <<>> /\ hist = <<>> /\ holding_value = <<>>
    /\ factors = <<>> /\ last_change = <<>> /\ asset_step = <<>>
    /\ events_rows = <<>> /\ portfolio_values = <<>> /\ per_asset_values = <<>>
    /\ daily_ret = <<>> /\ reset = <<>>
    /\ start_date = <<>> /\ end_date = <<>>

simVars == <<strategy, freq, weights, codes, params, cal, dates, hist,
             holding_value, factors, last_change, asset_step, events_rows,
             portfolio_values, per_asset_values, daily_ret, reset,
             start_date, end_date>>

InitDrawdown ==
    /\ mode = "drawdown" /\ pc = "run" /\ Idle
    /\ series \in SeqsUpTo({R(n) : n \in 1..MaxNav}, MaxSeriesLen)
    /\ dd = <<>> /\ price_map = <<>> /\ prices_out = <<>>

MaxDrawdown ==
    /\ mode = "drawdown" /\ pc = "run"
    /\ dd' = << MaxDrawdownOf(series) >>
    /\ pc' = "done"
    /\ UNCHANGED <<mode, series, price_map, prices_out>>
    /\ UNCHANGED simVars

SpecDrawdown == InitDrawdown /\ [][MaxDrawdown]_vars

-----------------------------------------------------------------------------
(* _prepare_price_frame and align_to_trading_days.  A source table is        *)
(* [code, has_col, rows]: has_col says whether the dates are a trade_date    *)
(* column (else they are the index); a row is [d |-> date, close |-> price]. *)
(* Every table carries a recognized close column.                            *)

\* the orders a sort by date can leave the rows in (the order of rows with
\* equal dates is the sort algorithm's choice)
SortedOrders(rows) ==
    LET n == Len(rows)
        perms == {pm \in [1..n -> 1..n] : \A i, j \in 1..n : i # j => pm[i] # pm[j]}
    IN {[i \in 1..n |-> rows[pm[i]]] : pm \in
           {q \in perms : \A i \in 1..(n - 1) : rows[q[i]].d <= rows[q[i + 1]].d}}

RECURSIVE PickRows(_, _, _)
\* the rows of sq from position i on whose position is in K
PickRows(sq, i, K) ==
    IF i > Len(sq) THEN <<>>
    ELSE (IF i \in K THEN <<sq[i]>> ELSE <<>>) \o PickRows(sq, i + 1, K)

\* drop_duplicates(subset=[date_col]): the first row of each date is kept
DropDuplicates(sq) ==
    PickRows(sq, 1, {i \in DOMAIN sq : \A j \in 1..(i - 1) : sq[j].d # sq[i].d})

\* align_to_trading_days: the tables it can return for one source table
AlignToTradingDays(tbl) ==
    IF tbl.has_col
    THEN {DropDuplicates(sq) : sq \in SortedOrders(tbl.rows)}
    ELSE SortedOrders(tbl.rows)

IndexOf(rows) == [i \in DOMAIN rows |-> rows[i].d]

HasDuplicates(idx) == \E i, j \in DOMAIN idx : i # j /\ idx[i] = idx[j]

Count(idx, d) == Cardinality({i \in DOMAIN idx : idx[i] = d})

RECURSIVE Repeat(_, _)
Repeat(x, n) == IF n = 0 THEN <<>> ELSE <<x>> \o Repeat(x, n - 1)

RECURSIVE UnionIndex(_, _)
\* the union of the indexes, ascending, each date as often as the index that
\* repeats it most: D is the set of dates still to place
UnionIndex(idxs, D) ==
    IF D = {} THEN <<>>
    ELSE LET d == CHOOSE x \in D : \A y \in D : x <= y
             m == CHOOSE k \in 0..Len(idxs[1]) + MaxTableRows :
                      /\ \E t \in DOMAIN idxs : Count(idxs[t], d) = k
                      /\ \A t \in DOMAIN idxs : Count(idxs[t], d) <= k
         IN Repeat(d, m) \o UnionIndex(idxs, D \ {d})

\* the index of pd.concat(series, axis=1).sort_index()
CombinedIndex(idxs) ==
    IF \A t \in DOMAIN idxs : idxs[t] = idxs[1] THEN idxs[1]
    ELSE UnionIndex(idxs, UNION {Range(idxs[t]) : t \in DOMAIN idxs})

\* one series on the combined index: itself when its index is the combined
\* one, else its value at each date, NaN where it has none
OnIndex(rows, idx) ==
    IF IndexOf(rows) = idx THEN [i \in DOMAIN idx |-> rows[i].close]
    ELSE [i \in DOMAIN idx |->
            IF \E k \in DOMAIN rows : rows[k].d = idx[i]
            THEN rows[CHOOSE k \in DOMAIN rows : rows[k].d = idx[i]].close
            ELSE NaN]

RECURSIVE Ffill(_)
\* ffill(): a missing value takes the last value before it
Ffill(col) ==
    IF Len(col) <= 1 THEN col
    ELSE LET front == Ffill(SubSeq(col, 1, Len(col) - 1))
             x == col[Len(col)]
         IN Append(front, IF IsNaN(x) THEN front[Len(front)] ELSE x)

\* prices.ffill().dropna(how="all") on the joined columns
FillAndDrop(idx, cols) ==
    LET filled == [t \in DOMAIN cols |-> Ffill(cols[t])]
        keepIdx == PickRows([i \in DOMAIN idx |-> i], 1,
                            {i \in DOMAIN idx : \E t \in DOMAIN cols : ~IsNaN(filled[t][i])})
    IN [error |-> FALSE,
        index |-> [k \in DOMAIN keepIdx |-> idx[keepIdx[k]]],
        values |-> [t \in DOMAIN cols |->
                      [k \in DOMAIN keepIdx |-> filled[t][keepIdx[k]]]]]

\* pd.concat(series, axis=1) re-indexes a series whose index is not the
\* combined one, which fails on an index with duplicate labels
ConcatFails(aligned) ==
    LET idxs == [t \in DOMAIN aligned |-> IndexOf(aligned[t])]
    IN \E t \in DOMAIN aligned :
          HasDuplicates(idxs[t]) /\ idxs[t] # CombinedIndex(idxs)

\* _prepare_price_frame on the aligned tables
PreparePriceFrame(aligned) ==
    LET idxs == [t \in DOMAIN aligned |-> IndexOf(aligned[t])]
        idx == CombinedIndex(idxs)
    IN IF ConcatFails(aligned) THEN [error |-> TRUE, index |-> <<>>, values |-> <<>>]
       ELSE FillAndDrop(idx, [t \in DOMAIN aligned |-> OnIndex(aligned[t], idx)])

FrameDates == 1..2
FrameCloses == {R(1), R(2)}

SourceTables ==
    {[has_col |-> hc, rows |-> rows] :
        hc \in BOOLEAN,
        rows \in {<<>>} \cup SeqsUpTo([d : FrameDates, close : FrameCloses], MaxTableRows)}

InitFrame ==
    /\ mode = "frame" /\ pc = "run" /\ Idle
    /\ series = <<>> /\ dd = <<>> /\ prices_out = <<>>
    /\ price_map \in {<<t>> : t \in SourceTables}
                     \cup {<<t, u>> : t \in SourceTables, u \in SourceTables}

PrepareFrame ==
    /\ mode = "frame" /\ pc = "run"
    /\ \E aligned \in [DOMAIN price_map -> UNION {AlignToTradingDays(price_map[t]) :
                                                    t \in DOMAIN price_map}] :
         /\ \A t \in DOMAIN price_map : aligned[t] \in AlignToTradingDays(price_map[t])
         /\ prices_out' = << PreparePriceFrame(aligned) >>
    /\ pc' = "done"
    /\ UNCHANGED <<mode, series, dd, price_map>>
    /\ UNCHANGED simVars

SpecFrame == InitFrame /\ [][PrepareFrame]_vars

-----------------------------------------------------------------------------
(* Properties.                                                              *)

Last(sq) == sq[Len(sq)]

IsTvalueRun == mode = "simulate" /\ strategy = "tvalue"
IsFixedRun == mode = "simulate" /\ strategy = "fixed"

\* the rows of the event log that record a tier change of asset c
ChangeRows(c) ==
    {i \in DOMAIN events_rows : events_rows[i].asset = c /\ events_rows[i].reason # ""}

\* C1: at every rebalance event of either simulator the holdings right after
\* the reset sum to the total value right before it.
C1_ValueConserved ==
    (mode = "simulate" /\ reset # <<>>) =>
        SumOver(reset[1].holding_after, DOMAIN reset[1].holding_after)
            = reset[1].total_before

\* C2: in a tvalue run any two recorded tier changes of one asset are at
\* least cooldown_days calendar days apart.
C2_CooldownSpacing ==
    IsTvalueRun =>
        \A c \in EquityLike(codes) : \A i, j \in ChangeRows(c) :
            i < j => events_rows[j].date - events_rows[i].date >= params.cooldown_days

\* two changes of one asset exactly cooldown_days apart, under the 10-day cooldown
C2_Witness ==
    /\ IsTvalueRun /\ params.cooldown_days = 10
    /\ \E c \in EquityLike(codes) : \E i, j \in ChangeRows(c) :
          i < j /\ events_rows[j].date - events_rows[i].date = params.cooldown_days

\* C3: in a tvalue run every equity-like asset's factor is one of 0, 0.5, 1, 2,
\* its tier is in 0..3 with the factor the tier's lookup, the factor starts at
\* 1.0, and no asset has two recorded changes on one date.
C3_TierDomain ==
    IsTvalueRun =>
        /\ \A c \in EquityLike(codes) :
              LET t == tier_from_factor(factors[c])
              IN /\ t \in 0..3
                 /\ \/ t = 0 /\ factors[c] = <<0, 1>>
                    \/ t = 1 /\ factors[c] = <<1, 2>>
                    \/ t = 2 /\ factors[c] = <<1, 1>>
                    \/ t = 3 /\ factors[c] = <<2, 1>>
                 /\ hist = <<>> => factors[c] = <<1, 1>>
        /\ \A i \in DOMAIN events_rows :
              /\ events_rows[i].prev_tier \in 0..3
              /\ events_rows[i].new_tier \in 0..3
        /\ \A c \in EquityLike(codes) : \A i, j \in ChangeRows(c) :
              i # j => events_rows[i].date # events_rows[j].date

\* an asset that was moved up to tier 3 and changed tier again on a later date
C3_Witness ==
    /\ IsTvalueRun
    /\ \E c \in EquityLike(codes) : \E i, j \in ChangeRows(c) :
          /\ i < j
          /\ events_rows[i].new_tier = 3
          /\ factors[c] = TierMap(events_rows[j].new_tier)

\* the weights of the frame's columns sum to 1.0
WeightsSumToOne ==
    SumOver([c \in Range(codes) |-> WeightsGet(weights, c)], Range(codes)) = <<1, 1>>

\* every column carries one price on every date of the frame
ConstantPrices ==
    \A k \in DOMAIN hist : \A c \in Range(codes) :
        ~IsNaN(hist[k][c]) /\ hist[k][c] = hist[1][c]

\* C4: with constant prices and weights that sum to 1 over the frame's
\* columns, NAV is 1.0 on every date and every daily return is 0, under
\* either simulator.
C4_ConstantPriceNav ==
    (mode = "simulate" /\ ConstantPrices /\ WeightsSumToOne) =>
        /\ \A t \in DOMAIN portfolio_values : portfolio_values[t] = <<1, 1>>
        /\ \A t \in DOMAIN daily_ret : daily_ret[t] = <<0, 1>>

\* the code asks for no rebalancing: None, or the configured "NONE"
FreqIsNone(fr) == fr.isNone \/ Upper(Strip(fr.chars)) = <<"N", "O", "N", "E">>

\* sum over the columns of weight * price(t) / price(t0)
WeightedPriceRatio(t) ==
    SumOver([c \in Range(codes) |->
                RMul(WeightsGet(weights, c), RDiv(hist[t][c], hist[1][c]))],
            Range(codes))

\* every price of the frame is present and not 0
PricesPresentNonZero ==
    \A k \in DOMAIN hist : \A c \in Range(codes) :
        IsFinite(hist[k][c]) /\ hist[k][c] # <<0, 1>>

\* C5 as stated: with frequency none, for every price frame, NAV(t) is the
\* weighted sum of price(t)/price(t0) on every date.
C5_NoRebalanceIdentityAnyFrame ==
    (IsFixedRun /\ FreqIsNone(freq)) =>
        \A t \in DOMAIN portfolio_values : portfolio_values[t] = WeightedPriceRatio(t)

\* C5 amended: with frequency none, for every price frame whose prices are
\* all present and non-zero, NAV(t) is the weighted sum of price(t)/price(t0)
\* on every date.
C5_NoRebalanceIdentity ==
    (IsFixedRun /\ FreqIsNone(freq) /\ PricesPresentNonZero) =>
        \A t \in DOMAIN portfolio_values : portfolio_values[t] = WeightedPriceRatio(t)

\* a three-date run without rebalancing whose prices moved the NAV twice
C5_Witness ==
    /\ IsFixedRun /\ FreqIsNone(freq) /\ PricesPresentNonZero
    /\ Len(portfolio_values) = 3
    /\ portfolio_values[2] # portfolio_values[1]
    /\ portfolio_values[3] # portfolio_values[2]
    /\ hist[2][Equity1] # hist[1][Equity1] /\ hist[3][BondCode] # hist[1][BondCode]

\* the event rows written on date d
EventsOn(d) == {i \in DOMAIN events_rows : events_rows[i].date = d}

\* C6: whenever a tvalue reweighting finds a positive unnormalized sum, the
\* weights applied to the holdings and written to that date's events sum to 1.
C6_NormalizedWeights ==
    (IsTvalueRun /\ reset # <<>> /\ RGt(reset[1].rw.sumb, <<0, 1>>)) =>
        /\ \A c \in Range(codes) :
              reset[1].holding_after[c]
                  = RMul(reset[1].total_before, events_rows[
                        CHOOSE i \in EventsOn(reset[1].date) : events_rows[i].asset = c
                    ].new_weight)
        /\ SumOver([i \in EventsOn(reset[1].date) |-> events_rows[i].new_weight],
                   EventsOn(reset[1].date)) = <<1, 1>>

\* a reweighting whose unnormalized sum is positive and not 1, with cash in the frame
C6_Witness ==
    /\ IsTvalueRun /\ reset # <<>>
    /\ RGt(reset[1].rw.sumb, <<0, 1>>) /\ reset[1].rw.sumb # <<1, 1>>
    /\ CashCode \in Range(codes)
    /\ reset[1].total_before # <<0, 1>>

PeriodicFreqs == {<<"W">>, <<"M">>, <<"Q">>, <<"A">>, <<"Y">>}

\* the index of the calendar week, month, quarter or year that holds day d
CalendarPeriod(f, d) ==
    CASE f = <<"W">> -> d \div 7
      [] f = <<"M">> -> Cardinality({e \in MonthEndDays : e < d})
      [] f = <<"Q">> -> Cardinality({e \in QuarterEndDays : e < d})
      [] OTHER -> Cardinality({e \in YearEndDays : e < d})

\* the k-th date is the first date of the frame in its calendar period
FirstOfPeriod(f, k) ==
    \A j \in 1..(k - 1) : CalendarPeriod(f, dates[j]) # CalendarPeriod(f, dates[k])

\* C7: under a weekly, monthly, quarterly or annual code the fixed simulator
\* resets (and logs fixed_rebalance events) on a date if and only if the date
\* is the first frame date in its calendar period.
C7_ResetOnFirstOfPeriod ==
    (IsFixedRun /\ pc = "run" /\ hist # <<>> /\ ~freq.isNone
        /\ Upper(Strip(freq.chars)) \in PeriodicFreqs) =>
        /\ reset # <<>> <=> FirstOfPeriod(Upper(Strip(freq.chars)), Len(dates))
        /\ EventsOn(Last(dates)) # {} <=> FirstOfPeriod(Upper(Strip(freq.chars)), Len(dates))

\* the code is None or, trimmed and upper-cased, none of M, Q, A, Y, W, D
Unrecognized(fr) ==
    fr.isNone \/ Upper(Strip(fr.chars)) \notin {<<"M">>, <<"Q">>, <<"A">>, <<"Y">>, <<"W">>, <<"D">>}

\* the holdings of a run that never rebalances, after the rows of h
RECURSIVE BuyAndHold(_, _, _)
BuyAndHold(cols, w, h) ==
    IF h = <<>> THEN InitialHolding(cols, w)
    ELSE LET before == SubSeq(h, 1, Len(h) - 1)
         IN ApplyReturns(BuyAndHold(cols, w, before), PrevPrices(before, Last(h)), Last(h))

\* C8: an unrecognized (or missing) code gives the output of a
\* no-rebalance run: its holdings and NAV on every date and no event; a
\* recognized code is honoured whatever its case and padding.
C8_UnrecognizedIsNoRebalance ==
    IsFixedRun =>
        /\ Unrecognized(freq) =>
              /\ events_rows = <<>> /\ reset = <<>>
              /\ \A t \in DOMAIN per_asset_values :
                    /\ per_asset_values[t] = BuyAndHold(codes, weights, SubSeq(hist, 1, t))
                    /\ portfolio_values[t]
                          = SumOver(per_asset_values[t], DOMAIN per_asset_values[t])
        /\ (~Unrecognized(freq) /\ pc = "run" /\ hist # <<>>) =>
              /\ reset # <<>> <=> InRebalDates(Upper(Strip(freq.chars)), Last(dates))
              /\ \A i \in DOMAIN events_rows :
                    events_rows[i].reason = Upper(Strip(freq.chars))

\* an unrecognized code on a frame that crosses a month end while prices move
C8_Witness ==
    /\ IsFixedRun /\ freq = [isNone |-> FALSE, chars |-> <<"x">>]
    /\ Len(hist) = 3 /\ 30 \in Range(dates)
    /\ portfolio_values[3] # portfolio_values[2]
    /\ events_rows = <<>>

\* NAV over its running maximum at position i
NavOverPeak(sq, i) ==
    RDiv(sq[i], CHOOSE m \in {sq[j] : j \in 1..i} : \A j \in 1..i : RGe(m, sq[j]))

\* C9: for a non-empty series of positive NAVs max_drawdown returns a
\* magnitude <= 0, a peak date <= the trough date, and a trough where NAV over
\* its running maximum is minimal.
C9_DrawdownSignAndOrder ==
    (mode = "drawdown" /\ dd # <<>>) =>
        /\ RLe(dd[1].mdd, <<0, 1>>)
        /\ dd[1].start <= dd[1].end
        /\ \A i \in DOMAIN series :
              RLe(NavOverPeak(series, dd[1].end), NavOverPeak(series, i))
        /\ dd[1].mdd = RSub(NavOverPeak(series, dd[1].end), <<1, 1>>)

\* a drawdown followed by a new high: the peak lies before the trough, the
\* series' maximum after it
C9_Witness ==
    /\ mode = "drawdown" /\ dd # <<>>
    /\ RLt(dd[1].mdd, <<0, 1>>) /\ dd[1].start < dd[1].end
    /\ \E i \in DOMAIN series : i > dd[1].end /\ RGt(series[i], series[dd[1].start])

\* C10: the frame built by _prepare_price_frame has strictly increasing
\* dates, whether a source table carries its dates as a trade_date column or
\* as its index.
C10_StrictlyIncreasingDates ==
    (mode = "frame" /\ prices_out # <<>> /\ ~prices_out[1].error) =>
        \A i, j \in DOMAIN prices_out[1].index :
            i < j => prices_out[1].index[i] < prices_out[1].index[j]

\* C11: under both simulators, on every date of the run the recorded NAV is the
\* sum of the per-asset holdings recorded for that date, rebalance or not.
C11_NavIsSumOfHoldings ==
    mode = "simulate" =>
        /\ Len(portfolio_values) = Len(per_asset_values)
        /\ Len(portfolio_values) = Len(dates)
        /\ \A i \in DOMAIN portfolio_values :
              /\ DOMAIN per_asset_values[i] = Range(codes)
              /\ ~IsNaN(portfolio_values[i])
              /\ portfolio_values[i] =
                    SumOver(per_asset_values[i], DOMAIN per_asset_values[i])

\* a date with a reset and with price moves, after a date without a reset
C11_Witness ==
    /\ mode = "simulate" /\ reset # <<>>
    /\ Len(portfolio_values) >= 2
    /\ Len(events_rows) = Len(codes)
    /\ hist[Len(hist)] # hist[Len(hist) - 1]
    /\ reset[1].total_before # Last(portfolio_values)

\* the frame has no date within [start_date, end_date]
EmptyAfterFilter ==
    ~\E i \in 1..Horizon(strategy, codes) :
        LET d == FrameIndex(cal, cal.start, i)[i]
        IN /\ start_date # <<>> => d >= start_date[1]
           /\ end_date # <<>> => d <= end_date[1]

\* C12: when the price frame is empty after the start/end date filter, backtest
\* ends in an error and returns no NAV, holdings or events, under either
\* strategy and any frequency code.
C12_EmptyFrameFails ==
    (mode = "simulate" /\ pc # "filter" /\ EmptyAfterFilter) =>
        /\ pc = "error"
        /\ portfolio_values = <<>> /\ per_asset_values = <<>>
        /\ events_rows = <<>> /\ daily_ret = <<>>

\* a tvalue run whose frame ends before its start date
C12_Witness ==
    /\ IsTvalueRun /\ pc = "error"
    /\ start_date # <<>> /\ end_date # <<>> /\ start_date[1] > end_date[1]

\* the date and the frame position of the iteration a step performs
StepDate == dates'[Len(dates')]
StepPos == Len(hist')

\* the step is one iteration of the tvalue loop
IsTvalueStep == IsTvalueRun /\ Len(hist') = Len(hist) + 1

\* asset c is evaluated by the step: its three moving averages exist
Evaluated(c) ==
    /\ ~IsNaN(RollingMean(hist', c, params.sma_short, StepPos))
    /\ ~IsNaN(RollingMean(hist', c, params.sma_mid, StepPos))
    /\ ~IsNaN(RollingMean(hist', c, params.sma_long, StepPos))

\* the asset's tier before and after the step, and its raw target tier
TierBefore(c) == tier_from_factor(factors[c])
TierAfter(c) == tier_from_factor(factors'[c])
StepRawTier(c) == RawTier(hist', c, params, StepPos)

\* the asset is in cooldown when the step starts
StepCooldown(c) ==
    last_change[c] # <<>> /\ StepDate - last_change[c][1] < params.cooldown_days

\* the event the step appends for asset c records a change from tier a to
\* tier b with reason why
StepEvent(c, why, a, b) ==
    \E i \in (Len(events_rows) + 1)..Len(events_rows') :
        /\ events_rows'[i].asset = c /\ events_rows'[i].date = StepDate
        /\ events_rows'[i].reason = why
        /\ events_rows'[i].prev_tier = a /\ events_rows'[i].new_tier = b

DownCrossApplies(c) ==
    Evaluated(c) /\ ~StepCooldown(c) /\ StepRawTier(c) < TierBefore(c)

\* C13: an evaluated asset that is not in cooldown and whose raw target tier is
\* below its current tier steps down by exactly one tier with reason
\* down_cross, whatever the confirm and momentum rules would do.
C13_DownCrossOneStep ==
    [][IsTvalueStep =>
         \A c \in EquityLike(codes) :
            DownCrossApplies(c) =>
               /\ TierAfter(c) = TierBefore(c) - 1
               /\ factors'[c] = TierMap(TierBefore(c) - 1)
               /\ last_change'[c] = <<StepDate>>
               /\ StepEvent(c, "down_cross", TierBefore(c), TierBefore(c) - 1)]_vars

\* a down_cross on a date whose raw tier is two or more tiers lower and is
\* confirmed
C13_Witness ==
    /\ IsTvalueRun /\ hist # <<>>
    /\ \E c \in EquityLike(codes) :
          /\ asset_step[c].reason = "down_cross"
          /\ RawTier(hist, c, params, Len(hist)) <= asset_step[c].prev_tier - 2
          /\ asset_step[c].new_tier = asset_step[c].prev_tier - 1
          /\ Confirmed(hist, c, params, Len(hist))

\* the step records a change of asset c with reason why
StepReason(c, why) ==
    \/ asset_step'[c].reason = why
    \/ \E i \in (Len(events_rows) + 1)..Len(events_rows') :
          events_rows'[i].asset = c /\ events_rows'[i].reason = why

\* C14: a change with reason confirm happens on a date only if the asset is
\* not in cooldown and the raw tier of each of the latest confirm_days frame
\* dates up to that date is the same value; the asset moves directly to that
\* raw tier, whatever its distance from the current tier.
C14_ConfirmNeedsAgreement ==
    [][IsTvalueStep =>
         \A c \in EquityLike(codes) :
            StepReason(c, "confirm") =>
               /\ ~StepCooldown(c)
               /\ Evaluated(c)
               /\ StepPos >= params.confirm_days
               /\ \A k \in (StepPos - params.confirm_days + 1)..StepPos :
                     RawTier(hist', c, params, k) = StepRawTier(c)
               /\ TierAfter(c) = StepRawTier(c)
               /\ TierAfter(c) # TierBefore(c)
               /\ factors'[c] = TierMap(StepRawTier(c))
               /\ last_change'[c] = <<StepDate>>
               /\ StepEvent(c, "confirm", TierBefore(c), StepRawTier(c))]_vars

\* a confirmed move over two or more tiers
C14_Witness ==
    /\ IsTvalueRun /\ hist # <<>>
    /\ \E c \in EquityLike(codes) :
          /\ asset_step[c].reason = "confirm"
          /\ asset_step[c].new_tier >= asset_step[c].prev_tier + 2
          /\ factors[c] = TierMap(asset_step[c].new_tier)

\* the asset's return over the ten frame dates before the step's date, NaN
\* (missing) when the frame has no date that far back
TenDayReturn(c) ==
    IF StepPos <= 10 THEN NaN
    ELSE RSub(RDiv(hist'[StepPos][c], hist'[StepPos - 10][c]), One)

\* the confirm rule fires for asset c: the latest confirm_days raw tiers
\* agree and the raw tier's factor is not the current one
ConfirmApplies(c) ==
    /\ StepPos >= params.confirm_days
    /\ \A k \in (StepPos - params.confirm_days + 1)..StepPos :
          RawTier(hist', c, params, k) = StepRawTier(c)
    /\ StepRawTier(c) # TierBefore(c)

\* the step leaves asset c as it was
StepKeeps(c) ==
    /\ factors'[c] = factors[c] /\ last_change'[c] = last_change[c]
    /\ asset_step'[c].reason = ""
    /\ ~\E i \in (Len(events_rows) + 1)..Len(events_rows') :
          events_rows'[i].asset = c /\ events_rows'[i].reason # ""

\* C15: for an evaluated asset that is not in cooldown and for which neither
\* the down-cross nor the confirm rule fires: a 10-day return >= +6% with
\* tier < 3 raises the tier by one (fast_up), a 10-day return <= -6% with
\* tier > 0 lowers it by one (fast_down), and otherwise (a missing return
\* included) the tier is unchanged.
C15_MomentumOverride ==
    [][IsTvalueStep =>
         \A c \in EquityLike(codes) :
            (Evaluated(c) /\ ~StepCooldown(c) /\ ~DownCrossApplies(c) /\ ~ConfirmApplies(c)) =>
               LET r10 == TenDayReturn(c)
                   cur == TierBefore(c)
               IN IF ~IsNaN(r10) /\ RGe(r10, <<3, 50>>) /\ cur < 3
                  THEN /\ TierAfter(c) = cur + 1
                       /\ last_change'[c] = <<StepDate>>
                       /\ StepEvent(c, "fast_up", cur, cur + 1)
                  ELSE IF ~IsNaN(r10) /\ RLe(r10, <<-3, 50>>) /\ cur > 0
                  THEN /\ TierAfter(c) = cur - 1
                       /\ last_change'[c] = <<StepDate>>
                       /\ StepEvent(c, "fast_down", cur, cur - 1)
                  ELSE StepKeeps(c)]_vars

\* the latest date moved an asset by one tier on its 10-day return
C15_Witness ==
    /\ IsTvalueRun /\ Len(hist) > RetShift
    /\ \E c \in EquityLike(codes) :
          /\ asset_step[c].reason \in {"fast_up", "fast_down"}
          /\ \E i \in ChangeRows(c) :
                /\ events_rows[i].date = Last(dates)
                /\ events_rows[i].reason = asset_step[c].reason
                /\ Abs(events_rows[i].new_tier - events_rows[i].prev_tier) = 1

\* the return of column c on the step's date: 0 when the previous price is
\* zero or missing or today's price is missing; the first date has no
\* previous date and returns 0
StepReturn(c) ==
    LET cur == hist'[StepPos][c]
        prev == IF hist = <<>> THEN cur ELSE hist[Len(hist)][c]
    IN IF prev = Zero \/ IsNaN(prev) \/ IsNaN(cur) THEN Zero
       ELSE RDiv(RSub(cur, prev), prev)

\* the events the step appends
StepEvents == SubSeq(events_rows', Len(events_rows) + 1, Len(events_rows'))

\* C16: on each date the tvalue simulator either appends no event and only
\* applies the day's returns to the holdings, or resets the holdings and
\* appends exactly one tvalue_rebalance event per frame column (cash and bond
\* included); the second case happens iff an equity-like asset changed tier
\* on the date, and then some event carries a non-empty reason.
C16_ReweighIffTierChange ==
    [][IsTvalueStep =>
         /\ SubSeq(events_rows', 1, Len(events_rows)) = events_rows
         /\ IF \E c \in EquityLike(codes) : TierAfter(c) # TierBefore(c)
            THEN /\ Len(StepEvents) = Len(codes)
                 /\ \A i \in DOMAIN codes :
                       /\ StepEvents[i].asset = codes[i]
                       /\ StepEvents[i].event = "tvalue_rebalance"
                       /\ StepEvents[i].date = StepDate
                       /\ holding_value'[codes[i]] =
                             RMul(RMul(TotalValue(holding_value), StepEvents[i].new_weight),
                                  RAdd(One, StepReturn(codes[i])))
                 /\ \E i \in DOMAIN codes : StepEvents[i].reason # ""
                 /\ \A i \in DOMAIN codes :
                       StepEvents[i].reason # "" <=>
                          (codes[i] \in EquityLike(codes)
                           /\ TierAfter(codes[i]) # TierBefore(codes[i]))
            ELSE /\ StepEvents = <<>>
                 /\ \A c \in Range(codes) :
                       holding_value'[c] =
                          RMul(holding_value[c], RAdd(One, StepReturn(c)))]_vars

\* a reweighting on a frame with a cash and a bond column, after a date
\* without one
C16_Witness ==
    /\ IsTvalueRun /\ reset # <<>>
    /\ CashCode \in Range(codes) /\ BondCode \in Range(codes)
    /\ Len(events_rows) = Len(codes)
    /\ \E i \in DOMAIN events_rows :
          events_rows[i].asset = CashCode /\ events_rows[i].reason = ""
    /\ Len(hist) >= 2

\* the quantities of a reweighting, from the weight vector and the factors
\* in force after the date's tier changes
NewEquitySum ==
    SumOver([c \in EquityLike(codes) |-> RMul(WeightsGet(weights, c), factors[c])],
            EquityLike(codes))
BaseEquitySum ==
    SumOver([c \in EquityLike(codes) |-> WeightsGet(weights, c)], EquityLike(codes))
Delta == RSub(NewEquitySum, BaseEquitySum)
TargetCashBond == RMax(Zero, RSub(One, NewEquitySum))
\* the cash asset's weight in the weight vector, 0 without a cash asset
CurrentCashWeight ==
    IF CashCode \in Range(codes) THEN WeightsGet(weights, CashCode) ELSE Zero

\* C17 as stated: with delta < 0 the cash weight is the current cash weight
\* increased by min(target_cash_bond, current cash weight + freed capital).
C17_CashIncreasedBy ==
    (IsTvalueRun /\ reset # <<>>) =>
        LET rw == reset[1].rw
        IN /\ RGe(Delta, Zero) =>
                 rw.cash_new = RSub(CurrentCashWeight, RMin(CurrentCashWeight, Delta))
           /\ RLt(Delta, Zero) =>
                 rw.cash_new =
                    RAdd(CurrentCashWeight,
                         RMin(TargetCashBond, RAdd(CurrentCashWeight, RNeg(Delta))))
           /\ rw.bond_new = RMax(Zero, RSub(TargetCashBond, rw.cash_new))

\* C17 (amended): at every tvalue reweighting, before normalization, with
\* delta = sum of new equity weights - sum of base equity weights and
\* target_cash_bond = max(0, 1 - sum of new equity weights): if delta >= 0
\* the cash weight is the cash asset's base weight reduced by min(that
\* weight, delta); if delta < 0 the cash weight is set to
\* min(target_cash_bond, base cash weight + freed capital); in both cases
\* bond weight = max(0, target_cash_bond - new cash weight).
C17_CashSetTo ==
    (IsTvalueRun /\ reset # <<>>) =>
        LET rw == reset[1].rw
        IN /\ RGe(Delta, Zero) =>
                 rw.cash_new = RSub(CurrentCashWeight, RMin(CurrentCashWeight, Delta))
           /\ RLt(Delta, Zero) =>
                 rw.cash_new =
                    RMin(TargetCashBond, RAdd(CurrentCashWeight, RNeg(Delta)))
           /\ rw.bond_new = RMax(Zero, RSub(TargetCashBond, rw.cash_new))
           /\ CashCode \in Range(codes) => rw.raw_w[CashCode] = rw.cash_new
           /\ BondCode \in Range(codes) => rw.raw_w[BondCode] = rw.bond_new

\* a reweighting that frees capital on a frame with a cash asset of positive
\* weight
C17_Witness ==
    /\ IsTvalueRun /\ reset # <<>>
    /\ CashCode \in Range(codes) /\ RGt(CurrentCashWeight, Zero)
    /\ RLt(Delta, Zero)
    /\ RGt(reset[1].rw.cash_new, CurrentCashWeight)

\* the three moving-average windows of the run and the longest of them
Windows == {params.sma_short, params.sma_mid, params.sma_long}
LongestWindow == CHOOSE w \in Windows : \A v \in Windows : v <= w

\* a window of w rows ending at the step's date is not filled with prices of
\* asset c: the frame has fewer than w rows so far, or one of them is missing
WindowLacksHistory(c, w) ==
    \/ StepPos < w
    \/ \E k \in 1..StepPos : k > StepPos - w /\ IsNaN(hist'[k][c])

\* C18: an equity-like asset's tier never changes on a date where any of its
\* three moving averages lacks sufficient history; before the longest window
\* has been filled no asset changes tier and no reweighting happens.
C18_NoChangeWithoutHistory ==
    [][IsTvalueStep =>
         /\ \A c \in EquityLike(codes) :
               (\E w \in Windows : WindowLacksHistory(c, w)) =>
                  /\ TierAfter(c) = TierBefore(c)
                  /\ StepKeeps(c)
         /\ StepPos < LongestWindow =>
               /\ StepEvents = <<>>
               /\ reset' = <<>>
               /\ factors' = factors
               /\ \A c \in Range(codes) :
                     holding_value'[c] =
                        RMul(holding_value[c], RAdd(One, StepReturn(c)))]_vars

\* the first date on which the longest window is filled changes a tier and
\* reweighs, after dates that did neither
C18_Witness ==
    /\ IsTvalueRun /\ Len(hist) = LongestWindow
    /\ reset # <<>>
    /\ Len(events_rows) = Len(codes)
    /\ \E c \in EquityLike(codes) : factors[c] # One

\* the step is one iteration of either simulator's loop
IsSimStep == mode = "simulate" /\ Len(hist') = Len(hist) + 1

\* the total value at the previous date's close; before the first date it is
\* the total of the initial split
PreviousNav ==
    IF portfolio_values = <<>> THEN TotalValue(holding_value)
    ELSE portfolio_values[Len(portfolio_values)]

\* C19: on a rebalance date of either simulator the reset uses the previous
\* date's closing total value and happens before the date's return is
\* applied: the holding recorded for the date is new_weight(asset) x previous
\* NAV x (1 + return of the asset on the date), the return being 0 when the
\* previous price is zero or missing or today's price is missing.
C19_ResetBeforeReturn ==
    [][(IsSimStep /\ StepEvents # <<>>) =>
         /\ Len(StepEvents) = Len(codes)
         /\ reset' # <<>>
         /\ reset'[1].total_before = PreviousNav
         /\ \A i \in DOMAIN codes :
               /\ StepEvents[i].asset = codes[i]
               /\ StepEvents[i].date = StepDate
               /\ per_asset_values'[Len(per_asset_values')][codes[i]] =
                     RMul(RMul(StepEvents[i].new_weight, PreviousNav),
                          RAdd(One, StepReturn(codes[i])))]_vars

\* a rebalance on a date after the first, reached with a NAV that has moved
\* away from its start, on which a column's price moved
C19_Witness ==
    /\ mode = "simulate" /\ reset # <<>> /\ Len(hist) >= 2
    /\ Len(portfolio_values) = Len(hist)
    /\ portfolio_values[Len(hist) - 1] # One
    /\ \E c \in Range(codes) :
          /\ ~IsNaN(hist[Len(hist)][c]) /\ ~IsNaN(hist[Len(hist) - 1][c])
          /\ hist[Len(hist) - 1][c] # Zero
          /\ hist[Len(hist)][c] # hist[Len(hist) - 1][c]
          /\ per_asset_values[Len(hist)][c] # Zero

\* C20: in the fixed simulator, for every frequency code and every weight
\* vector, the first date of the frame leaves the initial split unchanged: the
\* holding recorded for the first date is 1.0 x weight(asset) for every asset.
C20_FirstDateKeepsSplit ==
    (IsFixedRun /\ per_asset_values # <<>>) =>
        \A c \in Range(codes) :
            per_asset_values[1][c] = RMul(One, WeightsGet(weights, c))

\* the frame position of date d
PosOfDate(d) == CHOOSE k \in DOMAIN dates : dates[k] = d

\* C21: every tier change recorded with reason confirm raises the asset's tier
\* (new_tier > prev_tier); a raw tier below the current tier, confirmed or
\* not, is never applied as a direct jump: every recorded decrease of a tier
\* is a single step, with reason down_cross or fast_down.
C21_ConfirmOnlyRaises ==
    IsTvalueRun =>
        \A i \in DOMAIN events_rows :
            /\ events_rows[i].reason = "confirm" =>
                   events_rows[i].new_tier > events_rows[i].prev_tier
            /\ events_rows[i].new_tier < events_rows[i].prev_tier =>
                   /\ events_rows[i].prev_tier - events_rows[i].new_tier = 1
                   /\ events_rows[i].reason \in {"down_cross", "fast_down"}

\* a run with a confirm event and with a down_cross event on a date whose raw
\* tier was confirmed two or more tiers below the asset's tier
C21_Witness ==
    /\ IsTvalueRun
    /\ \E i \in DOMAIN events_rows : events_rows[i].reason = "confirm"
    /\ \E i \in DOMAIN events_rows :
          LET e == events_rows[i]
              k == PosOfDate(e.date)
          IN /\ e.reason = "down_cross"
             /\ Confirmed(hist, e.asset, params, k)
             /\ RawTier(hist, e.asset, params, k) <= e.prev_tier - 2

\* the dates up to d on which asset c changed tier, as the event log records
ChangeDatesUpTo(c, d) ==
    {events_rows[j].date : j \in {k \in DOMAIN events_rows :
        /\ events_rows[k].asset = c /\ events_rows[k].reason # ""
        /\ events_rows[k].date <= d}}

\* C22: the cooldown flag written in a tvalue_rebalance event for an
\* equity-like asset is true exactly when fewer than the configured
\* cooldown_days calendar days have elapsed between the asset's last tier
\* change and the event date.
C22_CooldownFlagAgrees ==
    IsTvalueRun =>
        \A i \in DOMAIN events_rows :
            LET e == events_rows[i]
                ch == ChangeDatesUpTo(e.asset, e.date)
            IN e.asset \in EquityLike(codes) =>
                  (e.cooldown <=>
                      \E d \in ch :
                         /\ \A x \in ch : x <= d
                         /\ e.date - d < params.cooldown_days)

\* the weight of column c before normalization, from the weight vector and
\* the factors in force
RawWeight(c) ==
    LET cash == IF RGe(Delta, Zero)
                THEN RSub(CurrentCashWeight, RMin(CurrentCashWeight, Delta))
                ELSE RMin(TargetCashBond, RAdd(CurrentCashWeight, RNeg(Delta)))
    IN IF c = BondCode THEN RMax(Zero, RSub(TargetCashBond, cash))
       ELSE IF c = CashCode THEN cash
       ELSE RMul(WeightsGet(weights, c), factors[c])

\* the weight a reweighting applies to column c: the raw weight over the sum
\* of the raw weights when that sum is positive
WeightFromFactors(c) ==
    LET sumb == SumOver([k \in Range(codes) |-> RawWeight(k)], Range(codes))
    IN IF RGt(sumb, Zero) THEN RDiv(RawWeight(c), sumb) ELSE RawWeight(c)

\* the dates of the run's reweightings and the event of column c on date d
ReweighDates == {events_rows[i].date : i \in DOMAIN events_rows}
EventOn(d, c) ==
    events_rows[CHOOSE i \in DOMAIN events_rows :
                   events_rows[i].date = d /\ events_rows[i].asset = c]

\* two reweighting dates reached the same factor for every equity-like asset
SameFactors(d1, d2) ==
    \A c \in EquityLike(codes) : EventOn(d1, c).factor = EventOn(d2, c).factor

\* C23: the weight vector applied by a tvalue reweighting is a function of
\* the base weight vector and the current factors of the equity-like assets
\* only: the weights a reweighting applies are those computed from the
\* weight vector and the factors alone, and two reweighting dates that reach
\* the same factor for every equity-like asset apply the same weights,
\* whatever reweightings, price drift or holdings preceded them.
C23_WeightsFromFactorsOnly ==
    IsTvalueRun =>
        /\ reset # <<>> =>
              \A c \in Range(codes) :
                 /\ EventOn(reset[1].date, c).new_weight = WeightFromFactors(c)
                 /\ reset[1].holding_after[c] =
                       RMul(reset[1].total_before, WeightFromFactors(c))
        /\ \A d1, d2 \in ReweighDates :
              SameFactors(d1, d2) =>
                 \A c \in Range(codes) :
                    EventOn(d1, c).new_weight = EventOn(d2, c).new_weight

\* the latest date reweighs to factors an earlier reweighting had reached,
\* after another reweighting in between and from a different total value
C23_Witness ==
    /\ IsTvalueRun /\ reset # <<>>
    /\ \E d1, d2 \in ReweighDates :
          /\ d1 < d2 /\ d2 < reset[1].date
          /\ SameFactors(d1, reset[1].date)
          /\ ~SameFactors(d1, d2)
          /\ portfolio_values[PosOfDate(d1)] # portfolio_values[PosOfDate(reset[1].date) - 1]
          /\ \E c \in Range(codes) : RGt(EventOn(d1, c).new_weight, Zero)

====
